---- MODULE Spec2Model ----
(***************************************************************************)
(* Model of cog3pio's CPU GeoTIFF reader (src/src/io/geotiff.rs).          *)
(*                                                                         *)
(* A CogReader wraps a TIFF decoder opened on a byte stream.  The stream   *)
(* is described by what the TIFF collaborator reports about it: colour     *)
(* type, dimensions, the primitive kind and sample layout of the decoded   *)
(* flat buffer, and the three GeoTIFF tags.  Every operation of the reader *)
(* is one action; its body is an operator translated from the function of  *)
(* the same name.  A Rust Result is a record with status "Ok" or "Err"; a  *)
(* panic (unimplemented!, slice index out of range, expect on None) is the *)
(* status "Panic".                                                         *)
(*                                                                         *)
(* f64 values are drawn from small integers.  xy_coords halves a           *)
(* resolution, so coordinates are carried in half units (the integer 2*x   *)
(* stands for x); on these inputs every f64 operation of the code is exact.*)
(***************************************************************************)
EXTENDS Integers, Sequences, FiniteSets, TLC

\* ------------------------------------------------------------------ bounds
MaxW == 2          \* image widths 1..MaxW
MaxH == 2          \* image heights 1..MaxH
MaxSamples == 3    \* declared sample counts of a multiband image 1..MaxSamples
MaxScale == 1      \* pixel scales -1..MaxScale
MaxScaleLen == 4   \* ModelPixelScaleTag value counts 2..MaxScaleLen
MaxTieLen == 7     \* ModelTiepointTag value counts 5..MaxTieLen
MaxDim == 3        \* shape_vec_to_tensor called directly: each axis 0..MaxDim
MaxVecLen == 9     \* shape_vec_to_tensor called directly: vec lengths 0..MaxVecLen
MaxDecodes == 2    \* decodes run on one CudaCogReader 0..MaxDecodes
MaxMajor == 2      \* max_version majors 0..MaxMajor passed to __dlpack__
MaxMinor == 2      \* max_version minors 0..MaxMinor passed to __dlpack__

\* ------------------------------------------------------------ Rust results
Ok(v) == [status |-> "Ok", val |-> v]
Err(e) == [status |-> "Err", err |-> e]
Panic(m) == [status |-> "Panic", msg |-> m]
NoResult == [status |-> "None"]

\* A Python exception raised by a #[pyfunction] or #[pymethods] function
\* returning Err
Raise(exc) == Err([raise |-> exc])

\* ------------------------------------------------- the TIFF collaborator
\* tiff::decoder::DecodingResult: the ten primitive buffer kinds
DTypes == {"U8", "U16", "U32", "U64", "I8", "I16", "I32", "I64", "F32", "F64"}

\* tiff::ColorType: every variant carries a bit depth (ignored by the reader);
\* Multiband also carries the declared number of samples
SupportedKinds == {"Gray", "RGB", "Multiband"}
OtherKinds == {"Palette", "GrayA", "RGBA", "CMYK", "CMYKA", "YCbCr"}
ColorTypes ==
    {[kind |-> k, num_samples |-> 0] : k \in {"Gray", "RGB"} \cup OtherKinds}
    \cup {[kind |-> "Multiband", num_samples |-> n] : n \in 1..MaxSamples}

\* Samples stored per pixel in a file of each colour type
SamplesPerPixel(ct) ==
    CASE ct.kind \in {"Gray", "Palette"} -> 1
      [] ct.kind = "GrayA" -> 2
      [] ct.kind \in {"RGB", "YCbCr"} -> 3
      [] ct.kind \in {"RGBA", "CMYK"} -> 4
      [] ct.kind = "CMYKA" -> 5
      [] ct.kind = "Multiband" -> ct.num_samples

\* The sample of band b at row r, column c of the source file (0-based):
\* a distinct value for every position, so that a permutation shows
Src(b, r, c) == 16 * b + 4 * r + c

\* A geo tag as Decoder::get_tag_f64_vec sees it
AbsentTag == [status |-> "absent", vals |-> <<>>]
UnreadableTag == [status |-> "unreadable", vals |-> <<>>]
TagOf(vals) == [status |-> "ok", vals |-> vals]

\* Decoder::get_tag_f64_vec
get_tag_f64_vec(tag) ==
    CASE tag.status = "ok" -> Ok(tag.vals)
      [] tag.status = "absent" -> Err("RequiredTagNotFound")
      [] tag.status = "unreadable" -> Err("InvalidTagValueType")

\* Decoder::read_image: the decoded pixels as one flat buffer of one kind.
\* Layouts of the collaborator's buffer:
\*   Chunky         pixel-interleaved: all samples of a pixel are adjacent
\*   Planar         band-sequential: one whole band after the other
\*   FirstBandOnly  only the first plane of a planar file is decoded
\*   Corrupt        a strip or tile fails to decompress
Layouts == {"Chunky", "Planar", "FirstBandOnly", "Corrupt"}

read_image(f) ==
    LET S == SamplesPerPixel(f.color_type)
        W == f.width
        H == f.height
        chunky == [k \in 1..(H * W * S) |->
                     Src((k - 1) % S, ((k - 1) \div S) \div W, ((k - 1) \div S) % W)]
        planar == [k \in 1..(S * H * W) |->
                     Src((k - 1) \div (H * W), ((k - 1) % (H * W)) \div W, (k - 1) % W)]
        first == [k \in 1..(H * W) |-> Src(0, (k - 1) \div W, (k - 1) % W)]
    IN CASE f.layout = "Chunky" -> Ok([kind |-> f.dtype, data |-> chunky])
         [] f.layout = "Planar" -> Ok([kind |-> f.dtype, data |-> planar])
         [] f.layout = "FirstBandOnly" -> Ok([kind |-> f.dtype, data |-> first])
         [] f.layout = "Corrupt" -> Err("IoError")

\* ------------------------------------------------------------------ streams
DefaultScale == TagOf(<<2, 2, 0>>)
DefaultTie == TagOf(<<0, 0, 0, 4, 6, 0>>)

\* Streams that vary in what pixel decoding depends on
PixelFiles ==
    {[valid |-> v, color_type |-> ct, width |-> w, height |-> h, dtype |-> dt,
      layout |-> l, transformation |-> AbsentTag, pixel_scale |-> DefaultScale,
      tiepoint |-> DefaultTie] :
        v \in {TRUE}, ct \in ColorTypes, w \in 1..MaxW, h \in 1..MaxH,
        dt \in DTypes, l \in Layouts}
    \cup {[valid |-> FALSE, color_type |-> [kind |-> "Gray", num_samples |-> 0],
           width |-> 1, height |-> 1, dtype |-> "U8", layout |-> "Corrupt",
           transformation |-> AbsentTag, pixel_scale |-> AbsentTag,
           tiepoint |-> AbsentTag]}

\* The ModelPixelScaleTag values (x_scale, y_scale, z_scale, ...) cut to n values
ScaleVals(x, y, z, n) == [i \in 1..n |-> IF i = 1 THEN x ELSE IF i = 2 THEN y ELSE z]

\* The ModelTiepointTag values (i, j, k, x, y, z, ...) cut to n values
TieVals(ijk, x, y, z, n) ==
    [i \in 1..n |-> IF i <= 3 THEN ijk[i]
                    ELSE IF i = 4 THEN x ELSE IF i = 5 THEN y ELSE z]

Scales == -1..MaxScale
ScaleTags ==
    {AbsentTag, UnreadableTag}
    \cup {TagOf(ScaleVals(x, y, z, n)) :
            x \in Scales, y \in Scales, z \in {0, 7}, n \in 2..MaxScaleLen}
\* Tiepoints: the reference pixel (i, j, k) with z_origin, and the origin (x, y)
TieTags ==
    {AbsentTag, UnreadableTag}
    \cup {TagOf(TieVals(SubSeq(ref, 1, 3), xy[1], xy[2], ref[4], n)) :
            ref \in {<<0, 0, 0, 0>>, <<1, 2, 3, 9>>},
            xy \in {<<0, 5>>, <<3, 0>>}, n \in 5..MaxTieLen}

\* Streams that vary in what the affine transform depends on
GeoFiles ==
    {[valid |-> TRUE, color_type |-> [kind |-> "Gray", num_samples |-> 0],
      width |-> w, height |-> h, dtype |-> "F32", layout |-> "Chunky",
      transformation |-> mt, pixel_scale |-> ps, tiepoint |-> tp] :
        w \in 1..MaxW, h \in 1..MaxH,
        mt \in {AbsentTag, UnreadableTag, TagOf(<<>>)},
        ps \in ScaleTags, tp \in TieTags}

\* --------------------------------------------------------- the CPU decoder
\* shape_vec_to_tensor, had it cut a longer vec down to the shape
shape_vec_to_tensor_truncating(shape, kind, vec) ==
    IF shape[1] * shape[2] * shape[3] > Len(vec)
    THEN Err("InconsistentSizesEncountered")
    ELSE Ok([shape |-> shape, dtype |-> kind,
             data |-> SubSeq(vec, 1, shape[1] * shape[2] * shape[3])])

\* Convert Vec<T> into an Array3<T> of shape (channels, height, width), and
\* then into a DLPack tensor.  Array3::from_shape_vec fails unless the vec
\* has exactly channels * height * width elements; the array is row-major.
shape_vec_to_tensor(shape, kind, vec) ==
    IF shape[1] * shape[2] * shape[3] # Len(vec)
    THEN Err("InconsistentSizesEncountered")
    ELSE Ok([shape |-> shape, dtype |-> kind, data |-> vec])

\* num_samples, had it counted the samples of every colour type
num_samples_any_color(f) == Ok(SamplesPerPixel(f.color_type))

\* CogReader::num_samples
num_samples(f) ==
    LET color_type == f.color_type
    IN CASE color_type.kind = "Multiband" -> Ok(color_type.num_samples)
         [] color_type.kind = "Gray" -> Ok(1)
         [] color_type.kind = "RGB" -> Ok(3)
         [] OTHER -> Err("UnsupportedColorType")

\* dlpack, had it built the shape as (bands, width, height)
dlpack_width_first(f) ==
    LET num_bands == num_samples(f)
    IN IF num_bands.status # "Ok" THEN [ret |-> num_bands, read |-> FALSE]
       ELSE LET decode_result == read_image(f)
            IN IF decode_result.status # "Ok"
               THEN [ret |-> decode_result, read |-> TRUE]
               ELSE LET shape == <<num_bands.val, f.width, f.height>>
                    IN [ret |-> shape_vec_to_tensor(shape, decode_result.val.kind,
                                                    decode_result.val.data),
                        read |-> TRUE]

\* dlpack, had it converted every buffer to f32
dlpack_as_f32(f) ==
    LET num_bands == num_samples(f)
    IN IF num_bands.status # "Ok" THEN [ret |-> num_bands, read |-> FALSE]
       ELSE LET decode_result == read_image(f)
            IN IF decode_result.status # "Ok"
               THEN [ret |-> decode_result, read |-> TRUE]
               ELSE LET shape == <<num_bands.val, f.height, f.width>>
                    IN [ret |-> shape_vec_to_tensor(shape, "F32",
                                                    decode_result.val.data),
                        read |-> TRUE]

\* dlpack, had it read the pixels before counting the bands
dlpack_read_first(f) ==
    LET decode_result == read_image(f)
        num_bands == num_samples(f)
    IN IF decode_result.status # "Ok"
       THEN [ret |-> decode_result, read |-> TRUE]
       ELSE IF num_bands.status # "Ok" THEN [ret |-> num_bands, read |-> TRUE]
       ELSE LET shape == <<num_bands.val, f.height, f.width>>
            IN [ret |-> shape_vec_to_tensor(shape, decode_result.val.kind,
                                            decode_result.val.data),
                read |-> TRUE]

\* CogReader::dlpack.  ret is the value returned; read tells whether
\* Decoder::read_image was called on the way.
dlpack(f) ==
    LET num_bands == num_samples(f)
    IN IF num_bands.status # "Ok" THEN [ret |-> num_bands, read |-> FALSE]
       ELSE LET decode_result == read_image(f)
            IN IF decode_result.status # "Ok"
               THEN [ret |-> decode_result, read |-> TRUE]
               ELSE LET shape == <<num_bands.val, f.height, f.width>>
                    IN [ret |-> shape_vec_to_tensor(shape, decode_result.val.kind,
                                                    decode_result.val.data),
                        read |-> TRUE]

\* read_geotiff that views the tensor as T whatever its element type is
read_geotiff_cast(T, f) ==
    IF ~f.valid THEN [ret |-> Err("FormatError"), read |-> FALSE]
    ELSE LET tensor == dlpack(f)
         IN IF tensor.ret.status # "Ok" THEN tensor
            ELSE [ret |-> Ok([shape |-> tensor.ret.val.shape, dtype |-> T,
                              data |-> tensor.ret.val.data]),
                  read |-> TRUE]

\* read_geotiff::<T, R>: open, decode to DLPack, view the tensor as an
\* ndarray of element type T with shape (bands, height, width), copy it out
read_geotiff(T, f) ==
    IF ~f.valid THEN [ret |-> Err("FormatError"), read |-> FALSE]
    ELSE LET tensor == dlpack(f)
         IN IF tensor.ret.status # "Ok" THEN tensor
            ELSE LET num_bands == num_samples(f)
                 IN IF num_bands.status # "Ok" THEN [ret |-> num_bands, read |-> TRUE]
                    ELSE IF tensor.ret.val.dtype # T
                    THEN [ret |-> Err("IoError"), read |-> TRUE]
                    ELSE IF Len(tensor.ret.val.data) # num_bands.val * f.height * f.width
                    THEN [ret |-> Err("IoError"), read |-> TRUE]
                    ELSE [ret |-> Ok([shape |-> <<num_bands.val, f.height, f.width>>,
                                      dtype |-> T, data |-> tensor.ret.val.data]),
                          read |-> TRUE]

\* read_geotiff_py: read_geotiff::<f32>, any error raised as ValueError
read_geotiff_py(f) ==
    LET array == read_geotiff("F32", f)
    IN IF array.ret.status = "Err"
       THEN [array EXCEPT !.ret = Raise("ValueError")]
       ELSE array

\* Element (b, r, c) of a row-major tensor of shape (C, H, W), 0-based
At(t, b, r, c) == t.data[(b * t.shape[2] + r) * t.shape[3] + c + 1]

\* ------------------------------------------------------ affine transform
\* geo::AffineTransform::new(a, b, xoff, d, e, yoff)
AffineTransform(a, b, xoff, d, e, yoff) ==
    [a |-> a, b |-> b, xoff |-> xoff, d |-> d, e |-> e, yoff |-> yoff]

\* The slice v[0..n] of a Vec: indexing panics when the Vec is shorter
Slice(v, n) ==
    IF Len(v) < n THEN Panic("range end index out of range for slice")
    ELSE Ok(SubSeq(v, 1, n))

\* transform, had it not negated the y scale
transform_y_up(f) ==
    LET model_transformation == get_tag_f64_vec(f.transformation)
    IN IF model_transformation.status = "Ok"
       THEN Panic("not implemented: Non-zero rotation is not handled yet")
       ELSE
       LET x_rotation == 0
           y_rotation == 0
           pixel_scale == get_tag_f64_vec(f.pixel_scale)
       IN IF pixel_scale.status # "Ok" THEN pixel_scale
          ELSE
          LET scale3 == Slice(pixel_scale.val, 3)
          IN IF scale3.status # "Ok" THEN scale3
             ELSE IF Len(scale3.val) # 3 THEN Err("InvalidTag")
             ELSE
             LET x_scale == scale3.val[1]
                 y_scale == scale3.val[2]
                 tie_points == get_tag_f64_vec(f.tiepoint)
             IN IF tie_points.status # "Ok" THEN tie_points
                ELSE
                LET tie6 == Slice(tie_points.val, 6)
                IN IF tie6.status # "Ok" THEN tie6
                   ELSE IF Len(tie6.val) # 6 THEN Err("InvalidTag")
                   ELSE
                   LET x_origin == tie6.val[4]
                       y_origin == tie6.val[5]
                   IN Ok(AffineTransform(x_scale, x_rotation, x_origin,
                                         y_rotation, y_scale, y_origin))

\* CogReader::transform
transform(f) ==
    LET model_transformation == get_tag_f64_vec(f.transformation)
    IN IF model_transformation.status = "Ok"
       THEN Panic("not implemented: Non-zero rotation is not handled yet")
       ELSE
       LET x_rotation == 0
           y_rotation == 0
           pixel_scale == get_tag_f64_vec(f.pixel_scale)
       IN IF pixel_scale.status # "Ok" THEN pixel_scale
          ELSE
          LET scale3 == Slice(pixel_scale.val, 3)
          IN IF scale3.status # "Ok" THEN scale3
             ELSE IF Len(scale3.val) # 3 THEN Err("InvalidTag")
             ELSE
             LET x_scale == scale3.val[1]
                 y_scale == scale3.val[2]
                 tie_points == get_tag_f64_vec(f.tiepoint)
             IN IF tie_points.status # "Ok" THEN tie_points
                ELSE
                LET tie6 == Slice(tie_points.val, 6)
                IN IF tie6.status # "Ok" THEN tie6
                   ELSE IF Len(tie6.val) # 6 THEN Err("InvalidTag")
                   ELSE
                   LET x_origin == tie6.val[4]
                       y_origin == tie6.val[5]
                   IN Ok(AffineTransform(x_scale, x_rotation, x_origin,
                                         y_rotation, 0 - y_scale, y_origin))

\* ceil(n / d) for d # 0
CeilDiv(n, d) ==
    LET nn == IF d < 0 THEN 0 - n ELSE n
        dd == IF d < 0 THEN 0 - d ELSE d
    IN 0 - ((0 - nn) \div dd)

\* ndarray::Array::range(start, end, step): ceil((end - start) / step)
\* elements start + i * step.  The length is converted with
\* to_usize().expect(..): a NaN or infinite quotient (step 0) and a negative
\* quotient panic.
range(start, end, step) ==
    IF step = 0 THEN Panic("Converting the length to usize must not fail")
    ELSE LET steps == CeilDiv(end - start, step)
         IN IF steps < 0 THEN Panic("Converting the length to usize must not fail")
            ELSE Ok([i \in 1..steps |-> start + (i - 1) * step])

\* CogReader::xy_coords.  All values below are in half units.
xy_coords(f) ==
    LET t == transform(f)
    IN IF t.status # "Ok" THEN t
       ELSE
       LET x_res == 2 * t.val.a
           y_res == 2 * t.val.e
           x_origin == 2 * t.val.xoff + x_res \div 2
           y_origin == 2 * t.val.yoff + y_res \div 2
           x_pixels == f.width
           y_pixels == f.height
           x_end == x_origin + x_res * x_pixels
           y_end == y_origin + y_res * y_pixels
           x_coords == range(x_origin, x_end, x_res)
           y_coords == range(y_origin, y_end, y_res)
       IN IF x_coords.status # "Ok" THEN x_coords
          ELSE IF y_coords.status # "Ok" THEN y_coords
          ELSE Ok([x |-> x_coords.val, y |-> y_coords.val])

\* ------------------------------------------------------- machine integers
\* Unsigned machine integers too wide for the checker's own integers are
\* sequences of base-256 digits, least significant first: a usize has
\* UsizeBytes digits, a u32 has U32Bytes.
Radix == 256
UsizeBytes == 8
U32Bytes == 4

\* v as u32 / v as usize for a value below 2^24
AsDigits(v, n) ==
    [i \in 1..n |-> IF i = 1 THEN v % Radix
                    ELSE IF i = 2 THEN (v \div Radix) % Radix
                    ELSE IF i = 3 THEN (v \div (Radix * Radix)) % Radix
                    ELSE 0]

\* The value of digits that stand for a number below 2^24
Value(d) ==
    (IF Len(d) >= 1 THEN d[1] ELSE 0)
    + (IF Len(d) >= 2 THEN Radix * d[2] ELSE 0)
    + (IF Len(d) >= 3 THEN Radix * Radix * d[3] ELSE 0)

\* d as a wider integer of n digits (u32 as usize)
Extend(d, n) == [i \in 1..n |-> IF i <= Len(d) THEN d[i] ELSE 0]

\* usize::MAX
usize_MAX == [i \in 1..UsizeBytes |-> Radix - 1]

\* a <= b for digits of one length
RECURSIVE LeqFrom(_, _, _)
LeqFrom(a, b, i) ==
    IF i = 0 THEN TRUE
    ELSE IF a[i] # b[i] THEN a[i] < b[i]
    ELSE LeqFrom(a, b, i - 1)

Leq(a, b) == LeqFrom(a, b, Len(a))

\* Sum of the digit products a[i] * b[j] of weight Radix^k, from a[i] on
RECURSIVE Column(_, _, _, _)
Column(a, b, k, i) ==
    IF i > Len(a) THEN 0
    ELSE (IF k - i + 2 \in 1..Len(b) THEN a[i] * b[k - i + 2] ELSE 0)
         + Column(a, b, k, i + 1)

\* The digits of weight Radix^k and above of the product a * b
RECURSIVE ProductFrom(_, _, _, _)
ProductFrom(a, b, k, carry) ==
    IF k = Len(a) + Len(b) THEN <<>>
    ELSE LET t == Column(a, b, k, 1) + carry
         IN <<t % Radix>> \o ProductFrom(a, b, k + 1, t \div Radix)

\* The mathematical product a * b, Len(a) + Len(b) digits
Product(a, b) == ProductFrom(a, b, 0, 0)

\* a * b on usize: the low UsizeBytes digits of the product, and whether the
\* product needed more
usize_mul(a, b) ==
    LET full == Product(a, b)
    IN [val |-> SubSeq(full, 1, UsizeBytes),
        overflow |-> \E i \in (UsizeBytes + 1)..Len(full) : full[i] # 0]

\* The allocation size of CudaCogReader::new:
\* image_width as usize * image_height as usize * bytes_per_pixel.  A product
\* that does not fit a usize panics in a build with overflow checks and
\* wraps in a build without.
usize_num_bytes(image_width, image_height, bits_per_pixel, overflow_checks) ==
    LET bytes_per_pixel == AsDigits(bits_per_pixel \div 8, UsizeBytes)
        wh == usize_mul(Extend(image_width, UsizeBytes), Extend(image_height, UsizeBytes))
        whb == usize_mul(wh.val, bytes_per_pixel)
    IN IF overflow_checks /\ (wh.overflow \/ whb.overflow)
       THEN Panic("attempt to multiply with overflow")
       ELSE Ok(whb.val)

\* --------------------------------------------------- the nvTIFF collaborator
\* nvtiffStatus_t values a native call may return; 0 is NVTIFF_STATUS_SUCCESS
Statuses == {0, 4, 8}

\* result that lets the status 4 pass as success
result_lenient(status) == IF status \in {0, 4} THEN Ok("unit") ELSE Err([StatusError |-> status])

\* result that takes every status for success
result_unchecked(status) == Ok("unit")

\* NvTiffResultCheck::result
result(status) == IF status = 0 THEN Ok("unit") ELSE Err([StatusError |-> status])

\* nvtiffSampleFormat values of nvtiffFileInfo.sample_format[0]
SampleFormats == {"UINT", "INT", "IEEEFP", "COMPLEXINT"}

\* nvtiffFileInfo.bits_per_pixel and samples_per_pixel of the files considered:
\* whole-byte and sub-byte widths, uniform and mixed per-sample widths
\* (152 bits in 9 samples: eight of 16 bits and one of 24), no samples at all
BitsPerPixel == {1, 8, 12, 16, 24, 32, 48, 64, 152, 256}
SamplesPerPixelInfo == {0, 1, 3, 9}

\* nvtiffFileInfo as nvtiffStreamGetFileInfo fills it in
FileInfos ==
    [image_width : 1..MaxW, image_height : 1..MaxH,
     bits_per_pixel : BitsPerPixel, samples_per_pixel : SamplesPerPixelInfo,
     sample_format : SampleFormats]

\* The named dlpark::ffi::DataType constants the decoder matches on
DataTypeName(dtype) ==
    CASE dtype.code = "UInt" /\ dtype.bits \in {8, 16, 32, 64} ->
            IF dtype.bits = 8 THEN "U8" ELSE IF dtype.bits = 16 THEN "U16"
            ELSE IF dtype.bits = 32 THEN "U32" ELSE "U64"
      [] dtype.code = "Int" /\ dtype.bits \in {8, 16, 32, 64} ->
            IF dtype.bits = 8 THEN "I8" ELSE IF dtype.bits = 16 THEN "I16"
            ELSE IF dtype.bits = 32 THEN "I32" ELSE "I64"
      [] dtype.code = "Float" /\ dtype.bits \in {32, 64} ->
            IF dtype.bits = 32 THEN "F32" ELSE "F64"
      [] OTHER -> "other"

\* size_of::<T>() in bytes of the element type of a named DataType
SizeOf(name) ==
    CASE name \in {"U8", "I8"} -> 1
      [] name \in {"U16", "I16"} -> 2
      [] name \in {"U32", "I32", "F32"} -> 4
      [] name \in {"U64", "I64", "F64"} -> 8

\* The little-endian bytes of a sample value 0..255 in an element of n bytes
ToLeBytes(v, n) == [j \in 1..n |-> IF j = 1 THEN v ELSE 0]

\* The samples of every pixel have one width, a whole number of bytes
UniformBytes(fi) ==
    /\ fi.samples_per_pixel > 0
    /\ fi.bits_per_pixel = fi.samples_per_pixel * (fi.bits_per_pixel \div fi.samples_per_pixel)
    /\ (fi.bits_per_pixel \div fi.samples_per_pixel) % 8 = 0

\* nvtiffDecodeImage: the bytes written to the device buffer of len bytes.
\* A file of uniform whole-byte samples is written pixel by pixel, row by
\* row, the samples of a pixel adjacent, each sample little-endian; for any
\* other file the model leaves the buffer zeroed.
nvtiffDecodeImage(fi, len) ==
    IF UniformBytes(fi)
    THEN LET n == (fi.bits_per_pixel \div fi.samples_per_pixel) \div 8
             S == fi.samples_per_pixel
             W == fi.image_width
             sample(k) == Src(k % S, (k \div S) \div W, (k \div S) % W)
         IN [i \in 1..len |-> ToLeBytes(sample((i - 1) \div n), n)[((i - 1) % n) + 1]]
    ELSE [i \in 1..len |-> 0]

\* ----------------------------------------------------------- the GPU decoder
\* CudaStream::alloc_zeros::<u8>(num_bytes): the device may refuse
alloc_zeros(num_bytes, alloc_ok) ==
    IF alloc_ok THEN Ok(num_bytes) ELSE Err("DriverError")

\* unwrap_or_else that hands the error on instead of panicking
unwrap_or_else_err(r, m) == r

\* Result::unwrap_or_else(|err| panic!(m))
unwrap_or_else(r, m) == IF r.status = "Ok" THEN r ELSE Panic(m)

\* CudaCogReader::new.  st holds the statuses of the three native calls and
\* alloc_ok tells whether CudaStream::alloc_zeros succeeds.  native is the
\* trace of native calls made, alloc whether device memory was allocated.
cuda_new(fi, st, alloc_ok) ==
    LET status_cpustream == st[1]
        status_parse == st[2]
        status_fileinfo == st[3]
        t1 == <<[call |-> "nvtiffStreamCreate", status |-> status_cpustream]>>
        t2 == Append(t1, [call |-> "nvtiffStreamParse", status |-> status_parse,
                          buffer_size |-> usize_MAX])
        t3 == Append(t2, [call |-> "nvtiffStreamGetFileInfo", status |-> status_fileinfo])
    IN IF result(status_cpustream).status # "Ok"
       THEN [ret |-> result(status_cpustream), native |-> t1, alloc |-> FALSE]
       ELSE IF result(status_parse).status # "Ok"
       THEN [ret |-> result(status_parse), native |-> t2, alloc |-> FALSE]
       ELSE IF result(status_fileinfo).status # "Ok"
       THEN [ret |-> result(status_fileinfo), native |-> t3, alloc |-> FALSE]
       ELSE IF fi.sample_format \notin {"UINT", "INT", "IEEEFP"}
       THEN [ret |-> Panic("not implemented: non uint/int/float dtypes"),
             native |-> t3, alloc |-> FALSE]
       ELSE IF fi.samples_per_pixel = 0
       THEN [ret |-> Panic("attempt to divide by zero"), native |-> t3, alloc |-> FALSE]
       ELSE
       LET dtype_code == CASE fi.sample_format = "UINT" -> "UInt"
                           [] fi.sample_format = "INT" -> "Int"
                           [] fi.sample_format = "IEEEFP" -> "Float"
           bits == fi.bits_per_pixel \div fi.samples_per_pixel
       IN IF bits > 255
          THEN [ret |-> Panic("called Result::unwrap() on an Err value: TryFromIntError"),
                native |-> t3, alloc |-> FALSE]
          ELSE
          LET dtype == [code |-> dtype_code, bits |-> bits, lanes |-> 1]
              \* the images of FileInfos are far from overflowing a usize
              num_bytes == Value(usize_num_bytes(AsDigits(fi.image_width, U32Bytes),
                                                 AsDigits(fi.image_height, U32Bytes),
                                                 fi.bits_per_pixel, TRUE).val)
              cuda_slice == unwrap_or_else(alloc_zeros(num_bytes, alloc_ok),
                                           "Failed to allocate bytes on CUDA device")
          IN IF cuda_slice.status # "Ok"
             THEN [ret |-> cuda_slice, native |-> t3, alloc |-> FALSE]
             ELSE [ret |-> Ok([num_bytes |-> num_bytes, dtype |-> dtype]),
                   native |-> t3, alloc |-> TRUE]

\* cudaslice_to_tensor that makes one element of every byte
cudaslice_to_tensor_bytes(T, bytes, len_elem) ==
    Ok([dtype |-> T, shape |-> <<Len(bytes)>>,
        data |-> [i \in 1..Len(bytes) |-> <<bytes[i]>>], owner |-> FALSE])

\* cudaslice_to_tensor that wraps the bytes as they are, reported as u8
cudaslice_to_tensor_u8(T, bytes, len_elem) ==
    Ok([dtype |-> "U8", shape |-> <<Len(bytes)>>,
        data |-> [i \in 1..Len(bytes) |-> <<bytes[i]>>], owner |-> FALSE])

\* cudaslice_to_tensor::<T>: view the bytes as len_elem elements of T, wrap
\* the view in a tensor, leak the CudaSlice the view was made from.  The
\* tensor holds a view: dropping it frees nothing.
cudaslice_to_tensor(T, bytes, len_elem) ==
    IF len_elem * SizeOf(T) > Len(bytes)
    THEN Panic("called Option::unwrap() on a None value")
    ELSE Ok([dtype |-> T, shape |-> <<len_elem>>,
             data |-> [i \in 1..len_elem |->
                         SubSeq(bytes, (i - 1) * SizeOf(T) + 1, i * SizeOf(T))],
             owner |-> FALSE])

\* CudaCogReader::dlpack.  self is the reader, st the statuses of the three
\* native calls.  decoded tells whether nvtiffDecodeImage ran and succeeded,
\* dropped whether the second CudaSlice made by upgrade_device_ptr was
\* dropped (and so freed the device memory) before the function returned.
cuda_dlpack(self, fi, st) ==
    LET status_decoder == st[1]
        status_check == st[2]
        status_decode == st[3]
        t1 == <<[call |-> "nvtiffDecoderCreateSimple", status |-> status_decoder]>>
        t2 == Append(t1, [call |-> "nvtiffDecodeCheckSupported", status |-> status_check])
        t3 == Append(t2, [call |-> "nvtiffDecodeImage", status |-> status_decode])
    IN IF result(status_decoder).status # "Ok"
       THEN [ret |-> result(status_decoder), native |-> t1, decoded |-> FALSE,
             dropped |-> FALSE]
       ELSE IF result(status_check).status # "Ok"
       THEN [ret |-> result(status_check), native |-> t2, decoded |-> FALSE,
             dropped |-> FALSE]
       ELSE IF result(status_decode).status # "Ok"
       THEN [ret |-> result(status_decode), native |-> t3, decoded |-> FALSE,
             dropped |-> FALSE]
       ELSE
       LET cuslice == nvtiffDecodeImage(fi, self.num_bytes)
       IN IF self.dtype.bits \div 8 = 0
          THEN [ret |-> Panic("attempt to divide by zero"), native |-> t3,
                decoded |-> TRUE, dropped |-> TRUE]
          ELSE
          LET len_elem == self.num_bytes \div (self.dtype.bits \div 8)
              name == DataTypeName(self.dtype)
          IN IF name = "other"
             THEN [ret |-> Panic("not implemented"), native |-> t3,
                   decoded |-> TRUE, dropped |-> TRUE]
             ELSE IF name = "U8"
             THEN [ret |-> Ok([dtype |-> "U8", shape |-> <<Len(cuslice)>>,
                               data |-> [i \in 1..Len(cuslice) |-> <<cuslice[i]>>],
                               owner |-> TRUE]),
                   native |-> t3, decoded |-> TRUE, dropped |-> FALSE]
             ELSE LET tensor == cudaslice_to_tensor(name, cuslice, len_elem)
                  IN [ret |-> tensor, native |-> t3, decoded |-> TRUE,
                      dropped |-> (tensor.status # "Ok")]

\* ------------------------------------------------------------------- state
VARIABLES
    stream,      \* the TIFF byte stream handed to the reader
    reader,      \* "unopened", "open", "failed" (new returned Err), "dropped"
    image_read,  \* TRUE once Decoder::read_image has been called on the stream
    op,          \* the last operation called
    arg,         \* its argument besides the reader
    out,         \* what it returned
    info,        \* the nvtiffFileInfo of the byte buffer handed to the GPU decoder
    cuda,        \* the CudaCogReader: its state, num_bytes and dtype
    device,      \* the device allocation: made, times freed, decodes written
    tensors,     \* the tensors CudaCogReader::dlpack returned, live or dropped
    native       \* the native calls made by new and by the last dlpack

cudavars == <<info, cuda, device, tensors, native>>

vars == <<stream, reader, image_read, op, arg, out, info, cuda, device, tensors, native>>

NoArg == [none |-> TRUE]

NoInfo == [none |-> TRUE]

\* No CudaCogReader constructed yet on the buffer described by fi
CudaStart(fi) ==
    /\ info = fi
    /\ cuda = [state |-> "none"]
    /\ device = [allocated |-> FALSE, frees |-> 0, decodes |-> 0]
    /\ tensors = <<>>
    /\ native = [new |-> <<>>, dlpack |-> <<>>]

Start(files) ==
    /\ CudaStart(NoInfo)
    /\ stream \in files
    /\ reader = "unopened"
    /\ image_read = FALSE
    /\ op = "none"
    /\ arg = NoArg
    /\ out = NoResult

Init == Start(PixelFiles)

InitGeo == Start(GeoFiles)

\* CogReader::new
New ==
    /\ reader = "unopened"
    /\ reader' = IF stream.valid THEN "open" ELSE "failed"
    /\ op' = "new"
    /\ arg' = NoArg
    /\ out' = IF stream.valid THEN Ok("CogReader") ELSE Err("FormatError")
    /\ UNCHANGED <<stream, image_read>>
    /\ UNCHANGED cudavars

Dlpack ==
    /\ reader = "open"
    /\ LET r == dlpack(stream)
       IN /\ out' = r.ret
          /\ image_read' = (image_read \/ r.read)
    /\ op' = "dlpack"
    /\ arg' = NoArg
    /\ UNCHANGED <<stream, reader>>
    /\ UNCHANGED cudavars

NumSamples ==
    /\ reader = "open"
    /\ out' = num_samples(stream)
    /\ op' = "num_samples"
    /\ arg' = NoArg
    /\ UNCHANGED <<stream, reader, image_read>>
    /\ UNCHANGED cudavars

Transform ==
    /\ reader = "open"
    /\ out' = transform(stream)
    /\ op' = "transform"
    /\ arg' = NoArg
    /\ UNCHANGED <<stream, reader, image_read>>
    /\ UNCHANGED cudavars

XyCoords ==
    /\ reader = "open"
    /\ out' = xy_coords(stream)
    /\ op' = "xy_coords"
    /\ arg' = NoArg
    /\ UNCHANGED <<stream, reader, image_read>>
    /\ UNCHANGED cudavars

\* read_geotiff takes the stream by value and drops its reader on return
ReadGeotiff ==
    /\ reader = "unopened"
    /\ \E T \in DTypes :
         LET r == read_geotiff(T, stream)
         IN /\ out' = r.ret
            /\ image_read' = r.read
            /\ arg' = [T |-> T]
    /\ reader' = "dropped"
    /\ op' = "read_geotiff"
    /\ UNCHANGED stream
    /\ UNCHANGED cudavars

\* The Python function read_geotiff(path)
ReadGeotiffPy ==
    /\ reader = "unopened"
    /\ LET r == read_geotiff_py(stream)
       IN /\ out' = r.ret
          /\ image_read' = r.read
    /\ arg' = NoArg
    /\ reader' = "dropped"
    /\ op' = "read_geotiff_py"
    /\ UNCHANGED stream
    /\ UNCHANGED cudavars

Next == New \/ Dlpack \/ NumSamples \/ Transform \/ XyCoords \/ ReadGeotiff \/ ReadGeotiffPy

Spec == Init /\ [][Next]_vars

SpecGeo == InitGeo /\ [][Next]_vars

\* shape_vec_to_tensor called on its own, as the crate's decode_error test does
Shapes == {<<c, h, w>> : c \in 0..MaxDim, h \in 0..MaxDim, w \in 0..MaxDim}

NoStream == [valid |-> FALSE]

InitShape ==
    /\ CudaStart(NoInfo)
    /\ stream = NoStream
    /\ reader = "unopened"
    /\ image_read = FALSE
    /\ op = "none"
    /\ \E shape \in Shapes, n \in 0..MaxVecLen, kind \in DTypes :
         arg = [shape |-> shape, kind |-> kind, vec |-> [k \in 1..n |-> k]]
    /\ out = NoResult

ShapeVecToTensor ==
    /\ op = "none"
    /\ out' = shape_vec_to_tensor(arg.shape, arg.kind, arg.vec)
    /\ op' = "shape_vec_to_tensor"
    /\ UNCHANGED <<stream, reader, image_read, arg>>
    /\ UNCHANGED cudavars

NextShape == ShapeVecToTensor

SpecShape == InitShape /\ [][NextShape]_vars

\* ------------------------------------------------- the GPU decoder's state
cpuvars == <<stream, reader, image_read>>

\* The statuses the three native calls of one operation return
StatusTriples == {<<a, b, c>> : a \in Statuses, b \in Statuses, c \in Statuses}

\* Lengths of the byte buffer handed to new, as usize: a small file holding
\* the pixels after an 8-byte header, and isize::MAX, the longest a Rust
\* allocation can be
isize_MAX == [i \in 1..UsizeBytes |-> IF i = UsizeBytes THEN Radix \div 2 - 1 ELSE Radix - 1]

ByteLens(fi) ==
    {AsDigits(8 + fi.image_width * fi.image_height * (fi.bits_per_pixel \div 8), UsizeBytes),
     isize_MAX}

\* CudaCogReader::new
CudaNew ==
    /\ cuda.state = "none"
    /\ \E st \in StatusTriples, alloc_ok \in BOOLEAN :
         LET r == cuda_new(info, st, alloc_ok)
         IN /\ cuda' = IF r.ret.status = "Ok"
                       THEN [state |-> "live", num_bytes |-> r.ret.val.num_bytes,
                             dtype |-> r.ret.val.dtype]
                       ELSE [state |-> "failed"]
            /\ device' = [device EXCEPT !.allocated = r.alloc]
            /\ native' = [new |-> r.native, dlpack |-> <<>>]
            /\ out' = r.ret
            /\ \E byte_len \in ByteLens(info) :
                 arg' = [alloc_ok |-> alloc_ok, byte_len |-> byte_len]
    /\ op' = "cuda_new"
    /\ UNCHANGED <<info, tensors>>
    /\ UNCHANGED cpuvars

\* CudaCogReader::dlpack(&self): callable again after it returned
CudaDlpack ==
    /\ cuda.state = "live"
    /\ device.decodes < MaxDecodes
    /\ \E st \in StatusTriples :
         LET r == cuda_dlpack(cuda, info, st)
         IN /\ device' = [device EXCEPT
                            !.decodes = @ + (IF r.decoded THEN 1 ELSE 0),
                            !.frees = @ + (IF r.dropped THEN 1 ELSE 0)]
            /\ tensors' = IF r.ret.status = "Ok"
                          THEN Append(tensors, [t |-> r.ret.val, live |-> TRUE])
                          ELSE tensors
            /\ native' = [native EXCEPT !.dlpack = r.native]
            /\ out' = r.ret
    /\ op' = "cuda_dlpack"
    /\ arg' = NoArg
    /\ UNCHANGED <<info, cuda>>
    /\ UNCHANGED cpuvars

\* The CudaCogReader goes out of scope: its cuda_slice frees the device memory
DropReader ==
    /\ cuda.state = "live"
    /\ cuda' = [state |-> "dropped"]
    /\ device' = [device EXCEPT !.frees = @ + 1]
    /\ op' = "drop_reader"
    /\ arg' = NoArg
    /\ out' = NoResult
    /\ UNCHANGED <<info, tensors, native>>
    /\ UNCHANGED cpuvars

\* A returned tensor is dropped: its deleter drops what the tensor wraps, a
\* CudaSlice (frees the device memory) or a CudaView (frees nothing)
DropTensor ==
    /\ \E i \in 1..Len(tensors) :
         /\ tensors[i].live
         /\ tensors' = [tensors EXCEPT ![i].live = FALSE]
         /\ device' = [device EXCEPT !.frees = @ + (IF tensors[i].t.owner THEN 1 ELSE 0)]
         /\ arg' = [tensor |-> i]
    /\ op' = "drop_tensor"
    /\ out' = NoResult
    /\ UNCHANGED <<info, cuda, native>>
    /\ UNCHANGED cpuvars

NextCuda == CudaNew \/ CudaDlpack \/ DropReader \/ DropTensor

InitCuda ==
    /\ stream = NoStream
    /\ reader = "unopened"
    /\ image_read = FALSE
    /\ op = "none"
    /\ arg = NoArg
    /\ out = NoResult
    /\ \E fi \in FileInfos : CudaStart(fi)

SpecCuda == InitCuda /\ [][NextCuda]_vars

\* ----------------------------------------------- the allocation size alone
\* u32 widths and heights from 1 to u32::MAX, u16 bits_per_pixel
U32s == {<<a, b, c, d>> : a \in {1, Radix - 1}, b \in {0, Radix - 1},
                         c \in {0, Radix - 1}, d \in {0, Radix - 1}}

U16BitsPerPixel == {8, 16, 32, 64, 65535}

InitBytes ==
    /\ CudaStart(NoInfo)
    /\ stream = NoStream
    /\ reader = "unopened"
    /\ image_read = FALSE
    /\ op = "none"
    /\ out = NoResult
    /\ \E w \in U32s, h \in U32s, bpp \in U16BitsPerPixel, overflow_checks \in BOOLEAN :
         arg = [image_width |-> w, image_height |-> h, bits_per_pixel |-> bpp,
                overflow_checks |-> overflow_checks]

\* The computation of num_bytes in CudaCogReader::new
NumBytes ==
    /\ op = "none"
    /\ op' = "num_bytes"
    /\ out' = usize_num_bytes(arg.image_width, arg.image_height, arg.bits_per_pixel,
                              arg.overflow_checks)
    /\ UNCHANGED <<stream, reader, image_read, arg>>
    /\ UNCHANGED cudavars

NextBytes == NumBytes

SpecBytes == InitBytes /\ [][NextBytes]_vars

\* ------------------------------------------------ the Python GPU reader
\* dlpark::ffi::DLPACK_MAJOR_VERSION and DLPACK_MINOR_VERSION
DLPACK_MAJOR_VERSION == 1
DLPACK_MINOR_VERSION == 1

\* Option<(u32, u32)> and Option<u8> arguments
None == [some |-> FALSE]

MaxVersions ==
    {None} \cup {[some |-> TRUE, major |-> major, minor |-> minor] :
                    major \in 0..MaxMajor, minor \in 0..MaxMinor}

StreamArgs == {None} \cup {[some |-> TRUE, s_uint |-> s] : s \in 0..3}

\* The value bound to _dlpack_version in __dlpack__
dlpack_version(max_version) ==
    IF max_version.some
    THEN IF max_version.major >= DLPACK_MAJOR_VERSION
            /\ max_version.minor = DLPACK_MINOR_VERSION
         THEN Ok("unit")
         ELSE IF max_version.major = DLPACK_MAJOR_VERSION
         THEN Raise("Warning")
         ELSE Raise("NotImplementedError")
    ELSE Raise("BufferError")

\* PyCudaCogReader::__dlpack__(stream, max_version).  ctx_ok tells whether
\* CudaContext::new succeeds, st holds the native statuses of the decode.
\* _dlpack_version is computed and not looked at again.
py_dlpack(self, fi, ctx_ok, stream_arg, max_version, st) ==
    LET none == [ret |-> NoResult, native |-> <<>>, decoded |-> FALSE, dropped |-> FALSE]
    IN IF ~ctx_ok
       THEN [none EXCEPT !.ret = Raise("ValueError")]
       ELSE IF stream_arg.some /\ stream_arg.s_uint = 0
       THEN [none EXCEPT !.ret = Panic("internal error: entered unreachable code")]
       ELSE IF stream_arg.some /\ stream_arg.s_uint >= 3
       THEN [none EXCEPT !.ret = Raise("NotImplementedError")]
       ELSE
       LET _dlpack_version == dlpack_version(max_version)
           tensor == cuda_dlpack(self, fi, st)
       IN IF tensor.ret.status = "Err"
          THEN [tensor EXCEPT !.ret = Raise("ValueError")]
          ELSE tensor

\* PyCudaCogReader::__dlpack__ on the reader held in inner; of the native
\* calls of the decode the last one may fail
PyDlpack ==
    /\ cuda.state = "live"
    /\ device.decodes < MaxDecodes
    /\ \E ctx_ok \in BOOLEAN, stream_arg \in StreamArgs, max_version \in MaxVersions,
          status_decode \in Statuses :
         LET st == <<0, 0, status_decode>>
             r == py_dlpack(cuda, info, ctx_ok, stream_arg, max_version, st)
         IN /\ device' = [device EXCEPT
                            !.decodes = @ + (IF r.decoded THEN 1 ELSE 0),
                            !.frees = @ + (IF r.dropped THEN 1 ELSE 0)]
            /\ tensors' = IF r.ret.status = "Ok"
                          THEN Append(tensors, [t |-> r.ret.val, live |-> TRUE])
                          ELSE tensors
            /\ native' = [native EXCEPT !.dlpack = r.native]
            /\ out' = r.ret
            /\ arg' = [ctx_ok |-> ctx_ok, stream |-> stream_arg, max_version |-> max_version]
    /\ op' = "py_dlpack"
    /\ UNCHANGED <<info, cuda>>
    /\ UNCHANGED cpuvars

\* One-pixel single-sample files of 8 and 32 bits, of every sample format
PyFileInfos ==
    {fi \in FileInfos : /\ fi.image_width = 1 /\ fi.image_height = 1
                        /\ fi.samples_per_pixel = 1 /\ fi.bits_per_pixel \in {8, 32}}

InitPy ==
    /\ stream = NoStream
    /\ reader = "unopened"
    /\ image_read = FALSE
    /\ op = "none"
    /\ arg = NoArg
    /\ out = NoResult
    /\ \E fi \in PyFileInfos : CudaStart(fi)

NextPy == CudaNew \/ PyDlpack

SpecPy == InitPy /\ [][NextPy]_vars

\* ------------------------------------------- both decoders on one file
\* What nvtiffStreamGetFileInfo reports for a file the tiff crate decodes
\* as f: one sample format and one width for all samples
file_info(f) ==
    [image_width |-> f.width, image_height |-> f.height,
     bits_per_pixel |-> SamplesPerPixel(f.color_type) * 8 * SizeOf(f.dtype),
     samples_per_pixel |-> SamplesPerPixel(f.color_type),
     sample_format |-> CASE f.dtype \in {"U8", "U16", "U32", "U64"} -> "UINT"
                         [] f.dtype \in {"I8", "I16", "I32", "I64"} -> "INT"
                         [] f.dtype \in {"F32", "F64"} -> "IEEEFP"]

\* Files both decoders read in full, pixel by pixel
BothFiles ==
    {f \in PixelFiles : f.valid /\ f.color_type.kind \in SupportedKinds /\ f.layout = "Chunky"}

InitBoth ==
    /\ stream \in BothFiles
    /\ reader = "unopened"
    /\ image_read = FALSE
    /\ op = "none"
    /\ arg = NoArg
    /\ out = NoResult
    /\ CudaStart(file_info(stream))

NextBoth == New \/ Dlpack \/ CudaNew \/ CudaDlpack

SpecBoth == InitBoth /\ [][NextBoth]_vars

\* ------------------------------------------------------------- properties
Supported(f) == f.color_type.kind \in SupportedKinds

\* The flat buffer the collaborator decodes holds every sample of the image
FullBuffer(f) ==
    /\ read_image(f).status = "Ok"
    /\ Len(read_image(f).val.data) = SamplesPerPixel(f.color_type) * f.height * f.width

CHW(f) == <<SamplesPerPixel(f.color_type), f.height, f.width>>

\* C1: for an image of C bands, H rows and W columns whose decoded flat
\* buffer has C*H*W elements, dlpack returns a tensor of shape (C, H, W), and
\* so does read_geotiff called with the stored element type.
C1_ShapeIsCHW ==
    (/\ op \in {"dlpack", "read_geotiff"}
     /\ Supported(stream) /\ FullBuffer(stream)
     /\ op = "read_geotiff" => arg.T = stream.dtype)
    => (out.status = "Ok" /\ out.val.shape = CHW(stream))

C1_Witness ==
    /\ op = "dlpack"
    /\ out.status = "Ok"
    /\ out.val.shape = <<3, 2, 1>>

\* C2: the tensor dlpack returns has the kind of the buffer the collaborator
\* decoded, whichever of the ten kinds it is, and holds that buffer's
\* elements unchanged.
C2_DtypePreserved ==
    (op = "dlpack" /\ out.status = "Ok")
    => (/\ out.val.dtype = stream.dtype
        /\ out.val.dtype = read_image(stream).val.kind
        /\ out.val.data = read_image(stream).val.data)

C2_Witness ==
    /\ op = "dlpack"
    /\ out.status = "Ok"
    /\ stream.dtype = "U16"
    /\ out.val.dtype = "U16"
    /\ Len(out.val.data) = 4

GeoTagsWellFormed(f) ==
    /\ f.pixel_scale.status = "ok" /\ Len(f.pixel_scale.vals) >= 3
    /\ f.tiepoint.status = "ok" /\ Len(f.tiepoint.vals) >= 6

\* C6: without a ModelTransformationTag the transform is a = x_scale,
\* b = 0, c = x_origin, d = 0, e = -y_scale, f = y_origin, taken from the
\* first two pixel-scale values and the 4th and 5th tiepoint values alone.
C6_TransformFromTags ==
    (/\ op = "transform"
     /\ stream.transformation.status # "ok"
     /\ GeoTagsWellFormed(stream))
    => out = Ok([a |-> stream.pixel_scale.vals[1], b |-> 0,
                 xoff |-> stream.tiepoint.vals[4], d |-> 0,
                 e |-> 0 - stream.pixel_scale.vals[2],
                 yoff |-> stream.tiepoint.vals[5]])

C6_Witness ==
    /\ op = "transform"
    /\ out.status = "Ok"
    /\ stream.pixel_scale.vals = <<1, 1, 7>>
    /\ stream.tiepoint.vals = <<1, 2, 3, 0, 5, 9>>
    /\ out.val = AffineTransform(1, 0, 0, 0, 0 - 1, 5)

\* C7: with a readable ModelTransformationTag, transform and xy_coords
\* return a typed Unimplemented error to the caller and do not panic.
C7_RotationIsTypedError ==
    (/\ op \in {"transform", "xy_coords"}
     /\ stream.transformation.status = "ok")
    => (out.status = "Err" /\ out.err = "Unimplemented")

\* C8: when ModelPixelScaleTag or ModelTiepointTag is missing, unreadable or
\* too short (fewer than 3, respectively 6, values), transform returns an
\* error value and does not panic.
C8_BadGeoTagIsError ==
    (/\ op = "transform"
     /\ stream.transformation.status # "ok"
     /\ ~GeoTagsWellFormed(stream))
    => out.status = "Err"

\* s is strictly ascending (dir = 1) or strictly descending (dir = -1)
Monotone(s, dir) == \A i \in 1..(Len(s) - 1) : dir * (s[i + 1] - s[i]) > 0

Sign(x) == IF x > 0 THEN 1 ELSE IF x < 0 THEN 0 - 1 ELSE 0

\* C9: for a stream with transform (a, c, e, f), xy_coords returns W
\* x-coordinates c + a/2 + i*a and H y-coordinates f + e/2 + j*e, each
\* sequence strictly ascending or descending with the sign of its resolution.
\* (Coordinates are in half units.)
C9_PixelCentres ==
    (op = "xy_coords" /\ transform(stream).status = "Ok")
    => LET t == transform(stream).val
       IN /\ out.status = "Ok"
          /\ Len(out.val.x) = stream.width
          /\ Len(out.val.y) = stream.height
          /\ \A i \in 0..(stream.width - 1) :
                out.val.x[i + 1] = 2 * t.xoff + t.a + 2 * i * t.a
          /\ \A j \in 0..(stream.height - 1) :
                out.val.y[j + 1] = 2 * t.yoff + t.e + 2 * j * t.e
          /\ t.a # 0 => Monotone(out.val.x, Sign(t.a))
          /\ t.e # 0 => Monotone(out.val.y, Sign(t.e))

\* C10: element (b, r, c) of the tensor dlpack returns is the source file's
\* sample of band b at row r and column c, whatever the layout of the
\* collaborator's flat buffer.
C10_BandRowColumn ==
    (op = "dlpack" /\ out.status = "Ok")
    => \A b \in 0..(out.val.shape[1] - 1), r \in 0..(out.val.shape[2] - 1),
          c \in 0..(out.val.shape[3] - 1) :
            At(out.val, b, r, c) = Src(b, r, c)

\* ------------------------------------------------ the GPU decoder's claims
Failed(trace) == {i \in 1..Len(trace) : trace[i].status # 0}

FirstFailed(trace) == CHOOSE i \in Failed(trace) : \A j \in Failed(trace) : i <= j

NewCalls == <<"nvtiffStreamCreate", "nvtiffStreamParse", "nvtiffStreamGetFileInfo">>

DlpackCalls == <<"nvtiffDecoderCreateSimple", "nvtiffDecodeCheckSupported", "nvtiffDecodeImage">>

\* The trace is the whole pipeline of the operation, every call successful
AllSucceeded(trace, calls) ==
    /\ Len(trace) = Len(calls)
    /\ \A i \in 1..Len(calls) : trace[i].call = calls[i] /\ trace[i].status = 0

\* C14: a non-success status of any of the six native calls makes new or
\* dlpack return the typed error of that status and no reader or tensor; a
\* reader exists only after the three calls of new succeeded, and a tensor
\* is returned only after the three calls of dlpack succeeded as well.
C14_AllStatusesChecked ==
    /\ (op = "cuda_new" /\ Failed(native.new) # {})
       => /\ out = Err([StatusError |-> native.new[FirstFailed(native.new)].status])
          /\ FirstFailed(native.new) = Len(native.new)
          /\ cuda.state = "failed"
          /\ tensors = <<>>
    /\ (op = "cuda_dlpack" /\ Failed(native.dlpack) # {})
       => /\ out = Err([StatusError |-> native.dlpack[FirstFailed(native.dlpack)].status])
          /\ FirstFailed(native.dlpack) = Len(native.dlpack)
    /\ cuda.state = "live" => AllSucceeded(native.new, NewCalls)
    /\ (op = "cuda_dlpack" /\ out.status = "Ok")
       => AllSucceeded(native.new, NewCalls) /\ AllSucceeded(native.dlpack, DlpackCalls)

C14_Witness ==
    /\ op = "cuda_dlpack"
    /\ Len(native.dlpack) = 3
    /\ native.dlpack[3] = [call |-> "nvtiffDecodeImage", status |-> 8]
    /\ out = Err([StatusError |-> 8])
    /\ Len(tensors) = 1

SupportedFormat(fi) == fi.sample_format \in {"UINT", "INT", "IEEEFP"}

\* C15: on a file whose sample format is not unsigned integer, signed
\* integer or IEEE float, CudaCogReader::new returns a typed error value: it
\* does not panic and produces no reader.
C15_UnsupportedFormatIsTypedError ==
    (op = "cuda_new" /\ ~SupportedFormat(info))
    => (out.status = "Err" /\ cuda.state = "failed")

\* new reached the allocation of the device buffer: the native calls
\* succeeded and the dtype was built
AllocAttempted ==
    /\ op = "cuda_new"
    /\ AllSucceeded(native.new, NewCalls)
    /\ SupportedFormat(info)
    /\ info.samples_per_pixel > 0
    /\ info.bits_per_pixel \div info.samples_per_pixel <= 255

\* C16 as stated: a failed allocation of the device buffer comes back to
\* the caller as a typed error value, not as a panic.
C16_AllocFailureIsTypedError ==
    (AllocAttempted /\ ~arg.alloc_ok) => out.status = "Err"

\* C16: a failed allocation of the device buffer makes CudaCogReader::new
\* panic, as its documentation says; no reader exists afterwards, no device
\* memory is held and no tensor was returned.
C16_AllocFailurePanics ==
    (AllocAttempted /\ ~arg.alloc_ok)
    => /\ out = Panic("Failed to allocate bytes on CUDA device")
       /\ cuda.state = "failed"
       /\ ~device.allocated
       /\ tensors = <<>>

C16_Witness ==
    /\ AllocAttempted
    /\ ~arg.alloc_ok
    /\ out.status = "Panic"
    /\ info.sample_format = "IEEEFP" /\ info.bits_per_pixel = 32
    /\ info.samples_per_pixel = 1

\* Kind and width in bits of a named DataType
KindOf(name) ==
    CASE name \in {"U8", "U16", "U32", "U64"} -> "UINT"
      [] name \in {"I8", "I16", "I32", "I64"} -> "INT"
      [] name \in {"F32", "F64"} -> "IEEEFP"

WidthOf(name) == 8 * SizeOf(name)

\* The kind and width combinations the decoder has an element type for
SupportedCombination(fi) ==
    /\ SupportedFormat(fi)
    /\ fi.samples_per_pixel > 0
    /\ fi.bits_per_pixel \div fi.samples_per_pixel \in
         (IF fi.sample_format = "IEEEFP" THEN {32, 64} ELSE {8, 16, 32, 64})

\* C17: a tensor returned by CudaCogReader::dlpack reports the kind of the
\* file's sample format and the width bits_per_pixel / samples_per_pixel,
\* one of 8, 16, 32, 64; it reports u8 only for 8-bit unsigned samples; and
\* for every kind and width the decoder has an element type for, a decode
\* whose native calls succeed returns such a tensor.
C17_DtypeFromSampleFormat ==
    /\ (op = "cuda_dlpack" /\ out.status = "Ok")
       => /\ KindOf(out.val.dtype) = info.sample_format
          /\ WidthOf(out.val.dtype) = info.bits_per_pixel \div info.samples_per_pixel
          /\ out.val.dtype = "U8"
               => info.bits_per_pixel \div info.samples_per_pixel = 8
    /\ (op = "cuda_dlpack" /\ AllSucceeded(native.dlpack, DlpackCalls)
        /\ SupportedCombination(info))
       => out.status = "Ok"

C17_Witness ==
    /\ op = "cuda_dlpack"
    /\ out.status = "Ok"
    /\ out.val.dtype = "I16"
    /\ info.bits_per_pixel = 48 /\ info.samples_per_pixel = 3

\* C18: the device buffer of a reader has width * height * (bits_per_pixel
\* / 8) bytes, and that is enough to hold width * height * samples_per_pixel
\* samples of bits_per_pixel / samples_per_pixel bits each.
C18_BufferHoldsEverySample ==
    cuda.state = "live"
    => /\ cuda.num_bytes = info.image_width * info.image_height * (info.bits_per_pixel \div 8)
       /\ 8 * cuda.num_bytes >=
            info.image_width * info.image_height * info.samples_per_pixel
              * (info.bits_per_pixel \div info.samples_per_pixel)

\* C12: a reader just constructed holds no device memory (it is first
\* allocated inside the decode), and one reader decodes at most once: after
\* a decode no further decode runs on it.
C12_ForwardOnly ==
    /\ (op = "cuda_new" /\ cuda.state = "live") => ~device.allocated
    /\ device.decodes <= 1

LiveTensors == {i \in 1..Len(tensors) : tensors[i].live}

\* C13: over construct, decode, drop of the reader and drop of a returned
\* tensor in any order, the device allocation is freed at most once and is
\* not freed while a returned tensor still refers to it.
C13_SingleOwner ==
    /\ device.frees <= 1
    /\ device.frees >= 1 => LiveTensors = {}

\* C11: a tensor returned by CudaCogReader::dlpack covers the device buffer
\* exactly: its number of elements times the size of its element type is
\* the num_bytes allocated, that is (num_bytes / (bits/8)) * (bits/8) =
\* num_bytes, for every file metadata the decoder accepts.
C11_TensorCoversBuffer ==
    (op = "cuda_dlpack" /\ out.status = "Ok")
    => /\ out.val.shape[1] * SizeOf(out.val.dtype) = cuda.num_bytes
       /\ Len(out.val.data) = out.val.shape[1]
       /\ (cuda.num_bytes \div (cuda.dtype.bits \div 8)) * (cuda.dtype.bits \div 8)
            = cuda.num_bytes

\* The value of an element from its little-endian bytes
RECURSIVE FromLeBytes(_)
FromLeBytes(bytes) ==
    IF bytes = <<>> THEN 0 ELSE Head(bytes) + 256 * FromLeBytes(Tail(bytes))

C20_IncompatibleVersionRaises ==
    (/\ op = "py_dlpack"
     /\ arg.ctx_ok
     /\ ~arg.stream.some \/ arg.stream.s_uint \in {1, 2}
     /\ AllSucceeded(native.dlpack, DlpackCalls)
     /\ SupportedCombination(info)
     /\ dlpack_version(arg.max_version) = Raise("NotImplementedError"))
    => out = Raise("NotImplementedError")

\* ------------------------------------------------------ remaining claims
\* C21: read_geotiff::<T> on a file whose stored element type is not T
\* returns an error, and the Python read_geotiff (T = f32) raises ValueError
\* on a file that is not float32; an array that is returned has the stored
\* element type and the decoded elements unchanged, never a cast of them.
C21_DtypeMismatchIsError ==
    /\ (op = "read_geotiff" /\ stream.dtype # arg.T) => out.status = "Err"
    /\ (op = "read_geotiff" /\ out.status = "Ok")
       => /\ out.val.dtype = arg.T
          /\ out.val.dtype = stream.dtype
          /\ out.val.data = read_image(stream).val.data
    /\ (op = "read_geotiff_py" /\ stream.dtype # "F32") => out = Raise("ValueError")
    /\ (op = "read_geotiff_py" /\ out.status = "Ok")
       => /\ stream.dtype = "F32"
          /\ out.val.dtype = "F32"
          /\ out.val.data = read_image(stream).val.data

C21_Witness ==
    /\ op = "read_geotiff_py"
    /\ stream.valid
    /\ stream.dtype = "U16"
    /\ stream.color_type.kind = "Gray"
    /\ stream.layout = "Chunky"
    /\ image_read
    /\ out = Raise("ValueError")

\* The positions of the trace at which nvtiffDecodeImage was called
DecodeCalls(trace) == {i \in 1..Len(trace) : trace[i].call = "nvtiffDecodeImage"}

\* C22: whenever dlpack issued the decode call, decoder creation and the
\* support check were called before it, in that order, and both returned
\* success; and a dlpack that did not issue the decode call left the
\* device buffer unwritten.
C22_CheckBeforeDecode ==
    /\ [](\A i \in DecodeCalls(native.dlpack) :
            /\ i = 3
            /\ native.dlpack[1] = [call |-> "nvtiffDecoderCreateSimple", status |-> 0]
            /\ native.dlpack[2] = [call |-> "nvtiffDecodeCheckSupported", status |-> 0])
    /\ [][(op' = "cuda_dlpack" /\ DecodeCalls(native'.dlpack) = {})
           => device'.decodes = device.decodes]_vars

C22_Witness ==
    /\ op = "cuda_dlpack"
    /\ Len(native.dlpack) = 2
    /\ native.dlpack[2] = [call |-> "nvtiffDecodeCheckSupported", status |-> 4]
    /\ out = Err([StatusError |-> 4])
    /\ device.decodes = 1

\* The panics of the decoder's width and count arithmetic
ArithmeticPanics ==
    {"attempt to divide by zero",
     "called Result::unwrap() on an Err value: TryFromIntError"}

\* C24: on no file metadata, samples_per_pixel = 0 and sample widths below
\* 8 or above 255 bits included, does new or dlpack end in a division by
\* zero or a failed narrowing conversion: they end in a value or a typed
\* error.
C24_ArithmeticNeverPanics ==
    op \in {"cuda_new", "cuda_dlpack"}
    => ~(out.status = "Panic" /\ out.msg \in ArithmeticPanics)

\* C26: with both geo tags readable and long enough and no transformation
\* tag, xy_coords returns the coordinate vectors or an error value whatever
\* the pixel scale is, a scale of zero included; it does not panic.
C26_ZeroScaleIsNoPanic ==
    (/\ op = "xy_coords"
     /\ get_tag_f64_vec(stream.transformation).status # "Ok"
     /\ GeoTagsWellFormed(stream)
     /\ stream.pixel_scale.vals[1] = 0 \/ stream.pixel_scale.vals[2] = 0)
    => out.status \in {"Ok", "Err"}

\* C23: the length new passes to nvtiffStreamParse is at most the length
\* of the byte buffer it was given.
C23_ParseLengthWithinBuffer ==
    op = "cuda_new"
    => \A i \in 1..Len(native.new) :
         native.new[i].call = "nvtiffStreamParse"
         => Leq(native.new[i].buffer_size, arg.byte_len)

\* C25: for every u32 width and height and u16 bits_per_pixel the num_bytes
\* computed is the mathematical product width * height * (bits_per_pixel /
\* 8): the computation neither overflows nor wraps.
C25_NumBytesIsProduct ==
    op = "num_bytes"
    => /\ out.status = "Ok"
       /\ Extend(out.val, UsizeBytes + 2)
            = Product(Product(arg.image_width, arg.image_height),
                      AsDigits(arg.bits_per_pixel \div 8, 2))

====
